---- MODULE Spec2Model ----
(***************************************************************************)
(* Model of the retrieval and caching core of my-workflow-demo:            *)
(*   - CacheHelper (src/shared/utils.py), used by one caller and by       *)
(*     several concurrent callers;                                         *)
(*   - the RAG pipeline of slack_bot (src/slack-rag-bot/main.py);          *)
(*   - ranking: VectorHelper.find_most_similar and search_knowledge_base.  *)
(* Each part has its own specification over its own variables; the other   *)
(* variables stay at their initial values.                                 *)
(***************************************************************************)
EXTENDS Integers, Sequences, FiniteSets, TLC

\* ------------------------------------------------------------------------
\* Bounds
\* ------------------------------------------------------------------------
\* largest max_size a cache is constructed with
MaxCapacity == 2

\* texts the callers cache values for, and the values
Texts == {"a", "b", "c", "d"}

Values == {"v1", "v2"}

\* Python's None
None == "None"

\* ------------------------------------------------------------------------
\* CacheHelper state
\* ------------------------------------------------------------------------
VARIABLES
  cache,      \* self.cache: the dict, as the sequence of its items in dict order
  max_size,   \* self.max_size
  fifo,       \* history: keys present, in the order the caller made them present
  last        \* history: the last call, its arguments, result and pre-state

cacheVars == <<cache, max_size, fifo, last>>

\* the request threads sharing one CacheHelper
VARIABLES
  pc,          \* per thread: "idle", or the statement of set it is about to run
  call,        \* per thread: the arguments of the set call in progress
  itlen,       \* per thread: the dict size recorded by iter(self.cache)
  victim,      \* per thread: the key returned by next(...)
  got,         \* per thread: the result of its last get
  popped,      \* history, per thread: this set call has removed an entry
  newAtCall,   \* history, per thread: the key was absent when set was called
  rival,       \* history, per thread: another call evicted and inserted the same key meanwhile
  doubleEvict  \* history: two entries were evicted for one insertion of a new key

concVars == <<pc, call, itlen, victim, got, popped, newAtCall, rival, doubleEvict>>

\* slack_bot: one request at a time through the RAG pipeline
VARIABLES
  ppc,          \* where the handler is: idle, search, generate, log, respond, done
  req,          \* the kind of request being handled
  docs,         \* len(relevant_docs), -1 before the search
  answer,       \* the generated answer, None before generation
  response,     \* what the handler returned
  status,       \* the HTTP status it returned, 0 while running
  genCalls,     \* calls of llm_model.predict made for this request
  logged,       \* rows this request added to the interactions table
  fault,        \* history: the stage that raised, or "none"
  escaped,      \* an exception left slack_bot
  interactions, \* the interactions table
  handled       \* requests received so far

pipeVars == <<ppc, req, docs, answer, response, status, genCalls, logged, fault,
              escaped, interactions, handled>>

\* ranking: one call of find_most_similar or search_knowledge_base
VARIABLES
  query,       \* the query vector
  candidates,  \* the candidate vectors (rows' embeddings), in input order
  top_k,       \* the top_k argument
  ranked,      \* the returned list of [index, score]
  via          \* "input" before the call, then the function that ran

rankVars == <<query, candidates, top_k, ranked, via>>

\* hashlib.md5(text.encode()).hexdigest(), tabulated for Texts
get_key(text) ==
  CASE text = "a" -> "0cc175b9c0f1b6a831c399e269772661"
    [] text = "b" -> "92eb5ffee6ae2fec3ad71c777531578f"
    [] text = "c" -> "4a8a08f09d37b73795649038408b5f33"
    [] text = "d" -> "8277e0910d750195b448797616e091ad"
    [] OTHER      -> "d41d8cd98f00b204e9800998ecf8427e"

\* keys of a dict, as a set
Keys(d) == {d[i].key : i \in 1..Len(d)}

\* dict.get(key): the value, or None
DictGet(d, key) ==
  IF key \in Keys(d)
    THEN d[CHOOSE i \in 1..Len(d) : d[i].key = key].value
    ELSE None

\* d[key] = value: an existing key keeps its place, a new key goes last
DictSet(d, key, value) ==
  IF key \in Keys(d)
    THEN [i \in 1..Len(d) |->
            IF d[i].key = key THEN [key |-> key, value |-> value] ELSE d[i]]
    ELSE Append(d, [key |-> key, value |-> value])

\* d.pop(key) for a key that is present
DictPop(d, key) == SelectSeq(d, LAMBDA e : e.key # key)

\* the capacity test of set, with > in place of >=
NeedsEvictionOffByOne(d, m) == Len(d) > m

\* set: len(self.cache) >= self.max_size
NeedsEviction(d, m) == Len(d) >= m

\* set: next(iter(self.cache)), the first key in dict order (d is not empty)
EvictionVictim(d) == d[1].key

\* set(text, value) on dict d with capacity m: the dict afterwards and whether
\* the call raised (next() on an empty dict raises StopIteration and the
\* assignment is never reached)
SetResult(d, m, text, value) ==
  IF NeedsEviction(d, m)
    THEN IF Len(d) = 0
           THEN [cache |-> d, raised |-> TRUE]
           ELSE [cache |-> DictSet(DictPop(d, EvictionVictim(d)), get_key(text), value),
                 raised |-> FALSE]
    ELSE [cache |-> DictSet(d, get_key(text), value), raised |-> FALSE]

\* history: the keys the caller has made present and that are still present,
\* oldest first; a call on a key that was present before the call is an
\* overwrite and keeps the key's place
FifoAfter(f, before, after, key) ==
  LET kept == SelectSeq(f, LAMBDA k : k \in Keys(after))
  IN IF key \notin Keys(before) /\ key \in Keys(after) THEN Append(kept, key) ELSE kept

NoCall ==
  [op |-> "none", text |-> "", value |-> None, result |-> None,
   raised |-> FALSE, before |-> <<>>, fifoBefore |-> <<>>]

CacheInit ==
  /\ cache = <<>>
  /\ max_size \in 0..MaxCapacity
  /\ fifo = <<>>
  /\ last = NoCall

\* CacheHelper.set
Set(text, value) ==
  LET r == SetResult(cache, max_size, text, value)
  IN /\ cache' = r.cache
     /\ fifo' = FifoAfter(fifo, cache, r.cache, get_key(text))
     /\ last' = [op |-> "set", text |-> text, value |-> value, result |-> None,
                 raised |-> r.raised, before |-> cache, fifoBefore |-> fifo]
     /\ UNCHANGED <<max_size, concVars, pipeVars, rankVars>>

\* CacheHelper.get
Get(text) ==
  /\ last' = [op |-> "get", text |-> text, value |-> None,
              result |-> DictGet(cache, get_key(text)),
              raised |-> FALSE, before |-> cache, fifoBefore |-> fifo]
  /\ UNCHANGED <<cache, max_size, fifo, concVars, pipeVars, rankVars>>

\* CacheHelper.clear
Clear ==
  /\ cache' = <<>>
  /\ fifo' = <<>>
  /\ last' = [op |-> "clear", text |-> "", value |-> None, result |-> None,
              raised |-> FALSE, before |-> cache, fifoBefore |-> fifo]
  /\ UNCHANGED <<max_size, concVars, pipeVars, rankVars>>

CacheNext ==
  \/ \E text \in Texts, value \in Values : Set(text, value)
  \/ \E text \in Texts : Get(text)
  \/ Clear

\* ------------------------------------------------------------------------
\* CacheHelper shared by concurrent requests: no lock in the class, so the
\* statements of set run interleaved with those of other threads
\* ------------------------------------------------------------------------
\* number of request threads sharing the cache
NumThreads == 2

Threads == 1..NumThreads

\* the texts and values the concurrent requests use
SharedTexts == {"a", "b", "c"}

SharedValues == {"v1"}

NoArgs == [text |-> "", value |-> None]

ConcInit ==
  /\ pc = [t \in Threads |-> "idle"]
  /\ call = [t \in Threads |-> NoArgs]
  /\ itlen = [t \in Threads |-> 0]
  /\ victim = [t \in Threads |-> None]
  /\ got = [t \in Threads |-> None]
  /\ popped = [t \in Threads |-> FALSE]
  /\ newAtCall = [t \in Threads |-> FALSE]
  /\ rival = [t \in Threads |-> FALSE]
  /\ doubleEvict = FALSE

\* what no step of a request thread changes
SharedFrame == UNCHANGED <<max_size, fifo, last, pipeVars, rankVars>>

\* the call ends (by return or by an exception): back to idle
Finish(t) ==
  /\ pc' = [pc EXCEPT ![t] = "idle"]
  /\ call' = [call EXCEPT ![t] = NoArgs]
  /\ itlen' = [itlen EXCEPT ![t] = 0]
  /\ victim' = [victim EXCEPT ![t] = None]
  /\ popped' = [popped EXCEPT ![t] = FALSE]
  /\ newAtCall' = [newAtCall EXCEPT ![t] = FALSE]

\* a request thread calls set(text, value)
SetCall(t, text, value) ==
  /\ pc[t] = "idle"
  /\ pc' = [pc EXCEPT ![t] = "check"]
  /\ call' = [call EXCEPT ![t] = [text |-> text, value |-> value]]
  /\ newAtCall' = [newAtCall EXCEPT ![t] = get_key(text) \notin Keys(cache)]
  /\ got' = [got EXCEPT ![t] = None]
  /\ UNCHANGED <<cache, itlen, victim, popped, rival, doubleEvict>>
  /\ SharedFrame

\* if len(self.cache) >= self.max_size
SetCheck(t) ==
  /\ pc[t] = "check"
  /\ pc' = [pc EXCEPT ![t] = IF NeedsEviction(cache, max_size) THEN "iter" ELSE "insert"]
  /\ UNCHANGED <<cache, call, itlen, victim, got, popped, newAtCall, rival, doubleEvict>>
  /\ SharedFrame

\* iter(self.cache): the iterator remembers the dict's size
SetIter(t) ==
  /\ pc[t] = "iter"
  /\ itlen' = [itlen EXCEPT ![t] = Len(cache)]
  /\ pc' = [pc EXCEPT ![t] = "next"]
  /\ UNCHANGED <<cache, call, victim, got, popped, newAtCall, rival, doubleEvict>>
  /\ SharedFrame

\* next(...): RuntimeError if the dict changed size since iter, StopIteration
\* if it is empty, else its first key
SetNextKey(t) ==
  /\ pc[t] = "next"
  /\ IF Len(cache) # itlen[t] \/ Len(cache) = 0
       THEN Finish(t) /\ rival' = [rival EXCEPT ![t] = FALSE]
       ELSE /\ victim' = [victim EXCEPT ![t] = EvictionVictim(cache)]
            /\ pc' = [pc EXCEPT ![t] = "pop"]
            /\ UNCHANGED <<call, itlen, popped, newAtCall, rival>>
  /\ UNCHANGED <<cache, got, doubleEvict>>
  /\ SharedFrame

\* self.cache.pop(key): KeyError if another thread removed the key meanwhile
SetPop(t) ==
  /\ pc[t] = "pop"
  /\ IF victim[t] \in Keys(cache)
       THEN /\ cache' = DictPop(cache, victim[t])
            /\ popped' = [popped EXCEPT ![t] = TRUE]
            /\ pc' = [pc EXCEPT ![t] = "insert"]
            /\ UNCHANGED <<call, itlen, victim, newAtCall, rival>>
       ELSE Finish(t) /\ rival' = [rival EXCEPT ![t] = FALSE] /\ UNCHANGED cache
  /\ UNCHANGED <<got, doubleEvict>>
  /\ SharedFrame

\* key = self.get_key(text); self.cache[key] = value
SetInsert(t) ==
  /\ pc[t] = "insert"
  /\ cache' = DictSet(cache, get_key(call[t].text), call[t].value)
  /\ doubleEvict' = (doubleEvict \/ (popped[t] /\ newAtCall[t] /\ rival[t]))
  /\ rival' = [u \in Threads |->
                 IF u = t THEN FALSE
                 ELSE IF /\ pc[u] # "idle" /\ popped[t]
                         /\ newAtCall[u] /\ call[u].text = call[t].text
                        THEN TRUE ELSE rival[u]]
  /\ Finish(t)
  /\ UNCHANGED got
  /\ SharedFrame

\* a request thread calls get(text): one dict lookup
ConcGet(t, text) ==
  /\ pc[t] = "idle"
  /\ got' = [got EXCEPT ![t] = DictGet(cache, get_key(text))]
  /\ UNCHANGED <<cache, pc, call, itlen, victim, popped, newAtCall, rival, doubleEvict>>
  /\ SharedFrame

ConcNext ==
  \/ \E t \in Threads, text \in SharedTexts, value \in SharedValues : SetCall(t, text, value)
  \/ \E t \in Threads : SetCheck(t)
  \/ \E t \in Threads : SetIter(t)
  \/ \E t \in Threads : SetNextKey(t)
  \/ \E t \in Threads : SetPop(t)
  \/ \E t \in Threads : SetInsert(t)
  \/ \E t \in Threads, text \in SharedTexts : ConcGet(t, text)

\* ------------------------------------------------------------------------
\* slack_bot: the RAG pipeline
\* ------------------------------------------------------------------------
\* requests the handler receives before the model stops
MaxRequests == 3

\* search_knowledge_base(question, top_k=3)
PipelineTopK == 3

\* GET; POST with a challenge; POST without a question; POST with a question
RequestKinds == {"get", "challenge", "empty", "question"}

PipeInit ==
  /\ ppc = "idle"
  /\ req = "none"
  /\ docs = -1
  /\ answer = None
  /\ response = None
  /\ status = 0
  /\ genCalls = 0
  /\ logged = 0
  /\ fault = "none"
  /\ escaped = FALSE
  /\ interactions = <<>>
  /\ handled = 0

PipeFrame == UNCHANGED <<cacheVars, concVars, rankVars>>

\* what slack_bot returns without entering the pipeline
EarlyResponse(kind) ==
  CASE kind = "get"       -> "running"
    [] kind = "challenge" -> "challenge"
    [] kind = "empty"     -> "ask"
    [] OTHER              -> None

\* the test after the search, always going on to generation
AfterSearchNoShortCircuit(n) == "generate"

\* if not relevant_docs: return the "couldn't find" response; else generate
AfterSearch(n) == IF n = 0 THEN "not_found" ELSE "generate"

\* the try block with generate_answer called outside it
InTryWithoutGeneration(stage) == stage \in {"embedding", "retrieval", "logging"}

\* the stages that run inside try ... except Exception
InTry(stage) == stage \in {"embedding", "retrieval", "generation", "logging"}

\* a stage raises: the except clause answers with status 500, or the exception
\* leaves the handler
OnRaise(stage) ==
  /\ fault' = stage
  /\ ppc' = "done"
  /\ IF InTry(stage)
       THEN response' = "error" /\ status' = 500 /\ escaped' = FALSE
       ELSE response' = None /\ status' = 0 /\ escaped' = TRUE

\* slack_bot is called: parse the request
Receive(kind) ==
  /\ ppc \in {"idle", "done"}
  /\ handled < MaxRequests
  /\ handled' = handled + 1
  /\ req' = kind
  /\ docs' = -1
  /\ answer' = None
  /\ genCalls' = 0
  /\ logged' = 0
  /\ fault' = "none"
  /\ escaped' = FALSE
  /\ response' = EarlyResponse(kind)
  /\ status' = IF kind = "question" THEN 0 ELSE 200
  /\ ppc' = IF kind = "question" THEN "search" ELSE "done"
  /\ UNCHANGED interactions
  /\ PipeFrame

\* relevant_docs = search_knowledge_base(question, top_k=3) returns n documents
Search(n) ==
  /\ ppc = "search"
  /\ docs' = n
  /\ IF AfterSearch(n) = "not_found"
       THEN ppc' = "done" /\ response' = "not_found" /\ status' = 200
       ELSE ppc' = "generate" /\ UNCHANGED <<response, status>>
  /\ UNCHANGED <<req, answer, genCalls, logged, fault, escaped, interactions, handled>>
  /\ PipeFrame

\* get_embedding or the BigQuery query raises inside search_knowledge_base
SearchRaises(stage) ==
  /\ ppc = "search"
  /\ OnRaise(stage)
  /\ UNCHANGED <<req, docs, answer, genCalls, logged, interactions, handled>>
  /\ PipeFrame

\* answer = generate_answer(question, relevant_docs)
Generate ==
  /\ ppc = "generate"
  /\ genCalls' = genCalls + 1
  /\ answer' = "answer"
  /\ ppc' = "log"
  /\ UNCHANGED <<req, docs, response, status, logged, fault, escaped, interactions, handled>>
  /\ PipeFrame

\* llm_model.predict raises
GenerateRaises ==
  /\ ppc = "generate"
  /\ genCalls' = genCalls + 1
  /\ OnRaise("generation")
  /\ UNCHANGED <<req, docs, answer, logged, interactions, handled>>
  /\ PipeFrame

\* log_interaction: insert_rows_json stores the row, or returns errors, which
\* are printed
LogInteraction(stored) ==
  /\ ppc = "log"
  /\ IF stored
       THEN /\ interactions' = Append(interactions,
                                 [answer |-> answer, sources_used |-> docs])
            /\ logged' = logged + 1
       ELSE UNCHANGED <<interactions, logged>>
  /\ ppc' = "respond"
  /\ UNCHANGED <<req, docs, answer, response, status, genCalls, fault, escaped, handled>>
  /\ PipeFrame

\* insert_rows_json raises
LogRaises ==
  /\ ppc = "log"
  /\ OnRaise("logging")
  /\ UNCHANGED <<req, docs, answer, genCalls, logged, interactions, handled>>
  /\ PipeFrame

\* return jsonify(response) with the answer and its sources
Respond ==
  /\ ppc = "respond"
  /\ response' = "answer"
  /\ status' = 200
  /\ ppc' = "done"
  /\ UNCHANGED <<req, docs, answer, genCalls, logged, fault, escaped, interactions, handled>>
  /\ PipeFrame

PipeNext ==
  \/ \E kind \in RequestKinds : Receive(kind)
  \/ \E n \in 0..PipelineTopK : Search(n)
  \/ \E stage \in {"embedding", "retrieval"} : SearchRaises(stage)
  \/ Generate
  \/ GenerateRaises
  \/ \E stored \in BOOLEAN : LogInteraction(stored)
  \/ LogRaises
  \/ Respond

\* ------------------------------------------------------------------------
\* Ranking: cosine similarity, list.sort(reverse=True), [:top_k]
\* ------------------------------------------------------------------------
\* longest candidate list, and the range of top_k
MaxCandidates == 7

MaxTopK == 3

\* the top_k arguments: a negative one, zero, and up to MaxTopK
TopKs == (-1)..MaxTopK

\* candidate embeddings: a zero vector and two directions
Vectors == {<<0, 0>>, <<1, 0>>, <<1, 1>>}

\* a row whose embedding column is empty
NoEmbedding == <<>>

Queries == {<<1, 0>>, <<1, 1>>}

RECURSIVE DotFrom(_, _, _)
DotFrom(a, b, i) == IF i > Len(a) THEN 0 ELSE a[i] * b[i] + DotFrom(a, b, i + 1)

\* np.dot
Dot(a, b) == DotFrom(a, b, 1)

\* np.dot(a, b) / (np.linalg.norm(a) * np.linalg.norm(b)), kept exact as the
\* pair (dot, |a|^2 |b|^2): the float is dot / sqrt(nn), and 0.0 / 0.0 = nan
\* when either vector is zero
cosine_similarity(a, b) == [dot |-> Dot(a, b), nn |-> Dot(a, a) * Dot(b, b)]

IsNaN(s) == s.nn = 0

\* s < t on floats: False when either is nan
ScoreLt(s, t) ==
  IF IsNaN(s) \/ IsNaN(t) THEN FALSE
  ELSE IF s.dot < 0 /\ t.dot >= 0 THEN TRUE
  ELSE IF s.dot >= 0 /\ t.dot <= 0 THEN FALSE
  ELSE IF s.dot >= 0 THEN s.dot * s.dot * t.nn < t.dot * t.dot * s.nn
  ELSE s.dot * s.dot * t.nn > t.dot * t.dot * s.nn

\* s == t on floats
ScoreEq(s, t) == ~IsNaN(s) /\ ~IsNaN(t) /\ ~ScoreLt(s, t) /\ ~ScoreLt(t, s)

\* s >= t on floats
ScoreGe(s, t) == ~IsNaN(s) /\ ~IsNaN(t) /\ ~ScoreLt(s, t)

Reverse(a) == [i \in 1..Len(a) |-> a[Len(a) + 1 - i]]

\* the comparison list.sort makes between two items: key(x) < key(y)
KeyLt(x, y) == ScoreLt(x.score, y.score)

\* list.sort, count_run: the length of the run that starts the list, and
\* whether it is strictly descending
RECURSIVE RunEnd(_, _, _)
RunEnd(a, i, desc) ==
  IF i > Len(a) THEN i - 1
  ELSE IF KeyLt(a[i], a[i - 1]) = desc THEN RunEnd(a, i + 1, desc)
  ELSE i - 1

CountRun(a) ==
  IF Len(a) = 1 THEN [n |-> 1, desc |-> FALSE]
  ELSE LET d == KeyLt(a[2], a[1]) IN [n |-> RunEnd(a, 3, d), desc |-> d]

\* list.sort, binarysort: where the pivot goes among the sorted a[l..r-1]
RECURSIVE BinarySearch(_, _, _, _)
BinarySearch(a, pivot, l, r) ==
  IF l >= r THEN l
  ELSE LET p == l + ((r - l) \div 2)
       IN IF KeyLt(pivot, a[p]) THEN BinarySearch(a, pivot, l, p)
          ELSE BinarySearch(a, pivot, p + 1, r)

\* move a[s] down to position l
InsertAt(a, s, l) ==
  [i \in 1..Len(a) |->
     IF i < l THEN a[i] ELSE IF i = l THEN a[s] ELSE IF i <= s THEN a[i - 1] ELSE a[i]]

\* list.sort, binarysort: insert a[start..] one by one into the sorted prefix
RECURSIVE BinarySort(_, _)
BinarySort(a, start) ==
  IF start > Len(a) THEN a
  ELSE BinarySort(InsertAt(a, start, BinarySearch(a, a[start], 1, start)), start + 1)

\* list.sort(key=score, reverse=True) for a list shorter than 64 (one run):
\* reverse, extend the starting run by binary insertion, reverse again
ListSortReverse(a) ==
  IF Len(a) < 2 THEN a
  ELSE LET r   == Reverse(a)
           run == CountRun(r)
           r2  == IF run.desc
                    THEN Reverse(SubSeq(r, 1, run.n)) \o SubSeq(r, run.n + 1, Len(r))
                    ELSE r
       IN Reverse(BinarySort(r2, run.n + 1))

\* a[:k]
Slice(a, k) ==
  IF k >= 0 THEN SubSeq(a, 1, IF k < Len(a) THEN k ELSE Len(a))
  ELSE SubSeq(a, 1, IF Len(a) + k > 0 THEN Len(a) + k ELSE 0)

\* [(i, cosine_similarity(query_vector, vec)) for i, vec in enumerate(...)]
Similarities(q, cands) ==
  [i \in 1..Len(cands) |-> [index |-> i - 1, score |-> cosine_similarity(q, cands[i])]]

\* VectorHelper.find_most_similar
find_most_similar(q, cands, k) == Slice(ListSortReverse(Similarities(q, cands)), k)

\* search_knowledge_base: rows without an embedding are skipped, the others
\* scored, sorted and cut to top_k
search_knowledge_base(q, rows, k) ==
  LET kept == SelectSeq([i \in 1..Len(rows) |-> i], LAMBDA i : rows[i] # NoEmbedding)
      docs_with_scores ==
        [j \in 1..Len(kept) |->
           [index |-> kept[j] - 1, score |-> cosine_similarity(q, rows[kept[j]])]]
  IN Slice(ListSortReverse(docs_with_scores), k)

RECURSIVE SeqsUpTo(_, _)
SeqsUpTo(S, n) ==
  IF n = 0 THEN {<<>>}
  ELSE LET shorter == SeqsUpTo(S, n - 1)
       IN shorter \cup {Append(a, x) : a \in {b \in shorter : Len(b) = n - 1}, x \in S}

RankInit ==
  /\ query \in Queries
  /\ candidates \in SeqsUpTo(Vectors \cup {NoEmbedding}, MaxCandidates)
  /\ top_k \in TopKs
  /\ ranked = <<>>
  /\ via = "input"

RankFrame == UNCHANGED <<cacheVars, concVars, pipeVars>>

\* a call of VectorHelper.find_most_similar: every candidate is a vector
FindMostSimilar ==
  /\ via = "input"
  /\ \A i \in 1..Len(candidates) : candidates[i] # NoEmbedding
  /\ ranked' = find_most_similar(query, candidates, top_k)
  /\ via' = "find_most_similar"
  /\ UNCHANGED <<query, candidates, top_k>>
  /\ RankFrame

\* a call of search_knowledge_base over the fetched rows
SearchKnowledgeBase ==
  /\ via = "input"
  /\ ranked' = search_knowledge_base(query, candidates, top_k)
  /\ via' = "search_knowledge_base"
  /\ UNCHANGED <<query, candidates, top_k>>
  /\ RankFrame

RankNext == FindMostSimilar \/ SearchKnowledgeBase

\* ------------------------------------------------------------------------
\* Specifications
\* ------------------------------------------------------------------------
vars == <<cacheVars, concVars, pipeVars, rankVars>>

\* a part of the program that is not running
CacheIdle == cache = <<>> /\ max_size = 0 /\ fifo = <<>> /\ last = NoCall

RankIdle ==
  /\ query = <<>> /\ candidates = <<>> /\ top_k = 0 /\ ranked = <<>> /\ via = "input"

\* one caller of the cache
Init == CacheInit /\ ConcInit /\ PipeInit /\ RankIdle

Next == CacheNext

Spec == Init /\ [][Next]_vars

\* several request threads sharing the cache
InitConc == CacheInit /\ ConcInit /\ PipeInit /\ RankIdle

NextConc == ConcNext

SpecConc == InitConc /\ [][NextConc]_vars

\* one ranking call
InitRank == CacheIdle /\ ConcInit /\ PipeInit /\ RankInit

NextRank == RankNext

SpecRank == InitRank /\ [][NextRank]_vars

\* the request handler
InitPipe == CacheIdle /\ ConcInit /\ PipeInit /\ RankIdle

NextPipe == PipeNext

SpecPipe == InitPipe /\ [][NextPipe]_vars

\* ------------------------------------------------------------------------
\* Claims about the cache with one caller
\* ------------------------------------------------------------------------
\* C1: after any sequence of set, get and clear calls by one caller the cache
\* never holds more than max_size entries.
C1_NeverOverCapacity == Len(cache) <= max_size

\* a set of a new key on a full cache has just returned
C1_Witness ==
  /\ last.op = "set" /\ ~last.raised
  /\ max_size >= 1 /\ Len(last.before) = max_size
  /\ get_key(last.text) \notin Keys(last.before)
  /\ Len(cache) = max_size

\* C2: a set of a key that is not in the cache, on a cache holding max_size
\* entries, removes exactly one entry, the one whose key the caller inserted
\* earliest among the entries present, whatever get calls came in between.
C2_EvictsEarliestInserted ==
  (/\ last.op = "set" /\ ~last.raised
   /\ get_key(last.text) \notin Keys(last.before)
   /\ Len(last.before) = max_size)
  => Keys(last.before) \ Keys(cache) = {Head(last.fifoBefore)}

\* C4: set(text, value) called twice in a row leaves the size after the
\* second call equal to the size after the first, removes no other entry, and
\* get(text) still returns value.
C4_SetTwiceIdempotent ==
  [][(/\ last.op = "set" /\ ~last.raised
      /\ last'.op = "set" /\ last'.text = last.text /\ last'.value = last.value)
     => (/\ Len(cache') = Len(cache)
         /\ Keys(cache') = Keys(cache)
         /\ DictGet(cache', get_key(last.text)) = last.value)]_cacheVars

\* ------------------------------------------------------------------------
\* Claims about the cache shared by concurrent requests
\* ------------------------------------------------------------------------
\* C3: with the steps of concurrent set calls interleaved in any order, the
\* cache never holds more than max_size entries and no insertion of a new key
\* has two entries evicted for it.
C3_ConcurrentCapacity == Len(cache) <= max_size /\ ~doubleEvict

\* ------------------------------------------------------------------------
\* Claims about the request handler
\* ------------------------------------------------------------------------
\* C5: when retrieval returns zero documents the handler answers with the
\* "no information found" response and the generation provider is not called
\* for that request.
C5_NoDocsShortCircuit ==
  (ppc = "done" /\ req = "question" /\ docs = 0)
  => (response = "not_found" /\ genCalls = 0 /\ answer = None)

\* a question whose search returned no documents has been answered
C5_Witness ==
  ppc = "done" /\ req = "question" /\ docs = 0 /\ fault = "none" /\ ~escaped

\* C6: every call that processes a question records exactly one interaction
\* log entry, on the success path, the zero-documents path and every failure
\* path.
C6_OneLogEntryPerCall == (ppc = "done" /\ req = "question") => logged = 1

\* C7: a failure of the logging step does not change the outcome: once
\* retrieval and generation have succeeded the caller receives the answer.
C7_LoggingFailureHarmless ==
  (ppc = "done" /\ req = "question" /\ answer # None)
  => (response = "answer" /\ status = 200)

\* C8: an exception of the generation provider is caught in the handler and
\* answered with a failure response; it does not leave the handler.
C8_GenerationFailureCaught ==
  /\ fault = "generation" => (ppc = "done" /\ response = "error" /\ status = 500)
  /\ ~escaped

\* the generation provider has raised while answering a question
C8_Witness ==
  ppc = "done" /\ req = "question" /\ fault = "generation" /\ genCalls = 1 /\ docs > 0

\* ------------------------------------------------------------------------
\* Claims about ranking
\* ------------------------------------------------------------------------
\* the candidates the specification ranks: those with an embedding that is
\* not the zero vector
NumValid(cands) ==
  Cardinality({i \in 1..Len(cands) :
                 cands[i] # NoEmbedding /\ Dot(cands[i], cands[i]) # 0})

\* min(k, n) as a length: empty for k <= 0
ClaimedLength(k, n) == IF k <= 0 THEN 0 ELSE IF k < n THEN k ELSE n

\* C9: for every query, candidate list and k the ranking output has length
\* min(k, number of valid candidates) and its scores are non-increasing.
C9_LengthAndOrder ==
  via # "input" =>
    /\ Len(ranked) = ClaimedLength(top_k, NumValid(candidates))
    /\ \A i \in 1..(Len(ranked) - 1) : ScoreGe(ranked[i].score, ranked[i + 1].score)

\* C10: two candidates with identical scores appear in the output in their
\* input order.
C10_StableRanking ==
  via # "input" =>
    \A i, j \in 1..Len(ranked) :
      (i < j /\ ScoreEq(ranked[i].score, ranked[j].score))
        => ranked[i].index < ranked[j].index

\* C11: for every k <= 0 and every candidate list the ranking returns an
\* empty sequence.
C11_NonPositiveKEmpty == (via # "input" /\ top_k <= 0) => ranked = <<>>

\* the candidate at input position i (from 0) has a zero-vector embedding
IsZeroCandidate(cands, i) ==
  cands[i + 1] # NoEmbedding /\ Dot(cands[i + 1], cands[i + 1]) = 0

\* C12: when a candidate has a zero-vector embedding the ranking leaves it
\* out of the output and returns the remaining candidates in descending order
\* of score.
C12_ZeroVectorExcluded ==
  (/\ via # "input"
   /\ \E i \in 0..(Len(candidates) - 1) : IsZeroCandidate(candidates, i))
  => /\ \A p \in 1..Len(ranked) : ~IsZeroCandidate(candidates, ranked[p].index)
     /\ \A p \in 1..(Len(ranked) - 1) : ScoreGe(ranked[p].score, ranked[p + 1].score)

====
